---- MODULE Spec2Model ----
(***************************************************************************)
(* Model of the KYCShield backend.                                         *)
(*                                                                         *)
(* Request admission:                                                      *)
(*   app/middleware/rate_limiter.py  TokenBucket, RateLimiter,             *)
(*                                   rate_limit_middleware                 *)
(*   app/api/endpoints/kyc_complete.py  the endpoint's own admission check *)
(* Fraud scoring and the full-KYC decision:                                *)
(*   app/services/fraud_detector.py  FraudDetector                         *)
(*   app/api/endpoints/fraud.py      /fraud/score, /history, /blacklist/add*)
(*   app/services/kyc_ensemble.py    KYCEnsemble                           *)
(*   app/api/endpoints/kyc.py        /kyc/verify                           *)
(*   app/services/cross_artifact_analyzer.py  CrossArtifactAnalyzer        *)
(*                                                                         *)
(* Token counts are Python floats.  Here they are exact fixed-point        *)
(* numbers counted in 1/Scale of a token, with Scale = 60, so that the     *)
(* refill rate requests_per_minute / 60.0 tokens per second is the whole   *)
(* number requests_per_minute of units per second.  The clock time.time()  *)
(* is read in whole seconds.                                               *)
(***************************************************************************)
EXTENDS Integers, Sequences, FiniteSets, TLC

VARIABLES
    requests_per_minute,  \* RateLimiter.requests_per_minute
    buckets,              \* RateLimiter.buckets: ip -> TokenBucket fields
    last_cleanup,         \* RateLimiter.last_cleanup
    inactive_ips,         \* the list the last cleanup pass computed and deleted
    now,                  \* time.time()
    resp,                 \* what the last request was answered
    run,                  \* the current run of requests of one client to one path
    inflight,             \* the position of each HTTP request task of the event loop
    batch,                \* the requests in flight together: when they began, the
                          \* tokens available then, how many were admitted since
    fraud_detector,       \* fraud.py: fraud_detector = FraudDetector()
    kyc_fraud_detector,   \* kyc.py: kyc_ensemble = KYCEnsemble(), its fraud_detector
    calls,                \* every scoring call made on fraud_detector: user -> times
    result                \* what the last service call returned, with its inputs

vars == <<requests_per_minute, buckets, last_cleanup, inactive_ips, now, resp, run,
          inflight, batch, fraud_detector, kyc_fraud_detector, calls, result>>

\* the state of the event loop's request tasks
loopVars == <<inflight, batch>>

\* the state of the fraud detectors and of what they last returned
fraudVars == <<fraud_detector, kyc_fraud_detector, calls, result>>

----------------------------------------------------------------------------
(* Program constants *)

SecondsPerMinute == 60   \* the 60.0 of requests_per_minute / 60.0
CleanupInterval == 300   \* now - self.last_cleanup > 300
GlobalRate == 60         \* rate_limiter = RateLimiter(requests_per_minute=60)
RetryBase == 60          \* "Try again in {60 - remaining} seconds."
TestRates == {5, 6}      \* RateLimiter(requests_per_minute=5), (requests_per_minute=6)

MaxAttemptsPerHour == 5  \* self.max_attempts_per_hour = 5
MaxAttemptsPerDay == 20  \* self.max_attempts_per_day = 20
SuspiciousHours == {0, 1, 2, 3, 4, 5}   \* self.suspicious_hours
Hour == 3600             \* timedelta(hours=1), in seconds
Day == 86400             \* timedelta(days=1), in seconds
HoursPerDay == 24        \* datetime.hour counts 0..23
MaxRiskScore == 100      \* min(score, 100)
PassThreshold == 75      \* self.pass_threshold = float(75)
FailThreshold == 40      \* self.fail_threshold = float(40)

Scale == SecondsPerMinute
Fixed(n) == n * Scale          \* the fixed-point form of the whole number n
Floor(x) == x \div Scale       \* int(x) of a non-negative fixed-point x
Min(a, b) == IF a <= b THEN a ELSE b

(* Bounds *)

MaxTicks == 1         \* clock steps of the application
MaxBucketTicks == 6   \* clock steps of the single-client test limiter
MaxTestTicks == 2     \* clock steps of the two-client test limiter
RunExtra == 2         \* a run is counted up to this many requests past capacity
MaxInflight == 2      \* HTTP requests in flight at once
MaxLoopTicks == 1     \* clock steps while requests are in flight
MaxCalls == 21        \* scoring calls of one user in the frequency scenario
MaxHourTicks == 2     \* half-hour clock steps of the frequency scenario
MaxScoreCalls == 1    \* scoring calls of one user in the scoring scenario
MaxScoreTicks == 1    \* half-hour clock steps of the scoring scenario
MaxVerifications == 2 \* full-KYC verifications of one user
MaxKycTicks == 1      \* six-hour clock steps of the full-KYC scenario
MaxAttemptCalls == 2  \* scoring calls of each user in the two-user scenario
MaxAttemptTicks == 2  \* half-day clock steps of the two-user scenario

Clients == {"192.168.1.100", "192.168.1.200"}
AppClient == "192.168.1.100"

RootPath == "/"
HealthPath == "/health"
KycHealthPath == "/api/v1/kyc/health"
VerifyCompletePath == "/api/v1/kyc/verify-complete"
TestPath == "/test"
DocPaths == {"/docs", "/redoc", "/openapi.json"}
Paths == {RootPath, HealthPath, KycHealthPath, VerifyCompletePath} \cup DocPaths

ExemptWithoutHealth == {RootPath} \cup DocPaths

\* rate_limit_middleware, line 118: the paths it lets through unchecked
ExemptPaths == {"/health", "/", "/docs", "/redoc", "/openapi.json"}

Users == {"user-1", "user-2"}
FreqUser == "user-1"

\* a device with no fraud signal, as the DeviceInfo model of fraud.py fills it
CleanDevice ==
    [device_id |-> "device-1", ip_address |-> "10.0.0.1", using_vpn |-> FALSE,
     is_emulator |-> FALSE, is_rooted |-> FALSE, device_mismatch |-> FALSE]

AppStep == 1       \* seconds per clock step of the application
BucketStep == 6    \* seconds per clock step of the single-client test limiter
TestStep == 301    \* seconds per clock step of the two-client test limiter

----------------------------------------------------------------------------
(* TokenBucket *)

\* TokenBucket.__init__ at time t
TokenBucket(capacity, refill_rate, t) ==
    [capacity |-> capacity, refill_rate |-> refill_rate,
     tokens |-> Fixed(capacity), last_refill |-> t]

RefillUncapped(b, t) == b.tokens + (t - b.last_refill) * b.refill_rate

RefillNoCarry(b, t) == Min(Fixed(b.capacity), (t - b.last_refill) * b.refill_rate)

\* consume, lines 33-40: the token count after the refill
Refill(b, t) ==
    Min(Fixed(b.capacity), b.tokens + (t - b.last_refill) * b.refill_rate)

ConsumeNoDebit(b, tokens, t) ==
    LET filled == Refill(b, t)
    IN  [bucket |-> [b EXCEPT !.tokens = filled, !.last_refill = t],
         ok |-> filled >= Fixed(tokens)]

ConsumeStrict(b, tokens, t) ==
    LET filled == Refill(b, t)
        ok == filled > Fixed(tokens)
    IN  [bucket |-> [b EXCEPT !.tokens = IF ok THEN filled - Fixed(tokens) ELSE filled,
                              !.last_refill = t],
         ok |-> ok]

\* TokenBucket.consume(tokens) at time t: the bucket afterwards and the result
Consume(b, tokens, t) ==
    LET filled == Refill(b, t)
        ok == filled >= Fixed(tokens)
    IN  [bucket |-> [b EXCEPT !.tokens = IF ok THEN filled - Fixed(tokens) ELSE filled,
                              !.last_refill = t],
         ok |-> ok]

----------------------------------------------------------------------------
(* RateLimiter *)

\* the default factory of RateLimiter.buckets
NewBucket(rpm, t) == TokenBucket(rpm, Fixed(rpm) \div SecondsPerMinute, t)

\* self.buckets[ip] on the defaultdict: a missing key is inserted
Lookup(bk, ip, rpm, t) ==
    IF ip \in DOMAIN bk THEN bk
    ELSE [k \in DOMAIN bk \cup {ip} |-> IF k = ip THEN NewBucket(rpm, t) ELSE bk[k]]

InactiveBelowOrFull(bk) == {ip \in DOMAIN bk : bk[ip].tokens <= Fixed(bk[ip].capacity)}

InactiveStrict(bk) == {ip \in DOMAIN bk : bk[ip].tokens > Fixed(bk[ip].capacity)}

\* _cleanup_old_buckets, lines 78-81: the buckets that are full
InactiveIps(bk) == {ip \in DOMAIN bk : bk[ip].tokens >= Fixed(bk[ip].capacity)}

\* _cleanup_old_buckets at time t
CleanupOldBuckets(bk, lc, gone, t) ==
    IF t - lc > CleanupInterval
    THEN LET dead == InactiveIps(bk)
         IN  [buckets |-> [k \in DOMAIN bk \ dead |-> bk[k]],
              last_cleanup |-> t, inactive_ips |-> dead]
    ELSE [buckets |-> bk, last_cleanup |-> lc, inactive_ips |-> gone]

\* check_rate_limit(request) for client ip at time t
CheckRateLimit(bk, lc, gone, rpm, ip, t) ==
    LET bk1 == Lookup(bk, ip, rpm, t)
        c == Consume(bk1[ip], 1, t)
        bk2 == [bk1 EXCEPT ![ip] = c.bucket]
    IN  IF ~c.ok
        THEN [buckets |-> bk2, last_cleanup |-> lc, inactive_ips |-> gone,
              allowed |-> FALSE, retry |-> RetryBase - Floor(c.bucket.tokens)]
        ELSE LET cl == CleanupOldBuckets(bk2, lc, gone, t)
             IN  [buckets |-> cl.buckets, last_cleanup |-> cl.last_cleanup,
                  inactive_ips |-> cl.inactive_ips, allowed |-> TRUE, retry |-> 0]

----------------------------------------------------------------------------
(* The run of requests the claims count: consecutive requests of one client *)
(* to one path; fresh when the client had no bucket before the first one.   *)

NoRun == [ip |-> "", path |-> "", n |-> 0, fresh |-> FALSE, start |-> 0]

NextRun(r, ip, path, bk, rpm, t) ==
    IF r.ip = ip /\ r.path = path
    THEN [r EXCEPT !.n = IF r.n < rpm + RunExtra THEN r.n + 1 ELSE r.n]
    ELSE [ip |-> ip, path |-> path, n |-> 1, fresh |-> ip \notin DOMAIN bk, start |-> t]

----------------------------------------------------------------------------
(* The HTTP application: main.py registers rate_limit_middleware in front   *)
(* of every route; the middleware and the endpoints share the global        *)
(* rate_limiter.                                                            *)

\* verify_kyc_complete up to its admission check (lines 44-75); auth is the
\* outcome of the require_jwt_token dependency, which runs before the body
VerifyComplete(bk, lc, gone, rpm, ip, auth, t) ==
    IF ~auth
    THEN [buckets |-> bk, last_cleanup |-> lc, inactive_ips |-> gone,
          status |-> 401, retry |-> 0]
    ELSE LET chk == CheckRateLimit(bk, lc, gone, rpm, ip, t)
         IN  [buckets |-> chk.buckets, last_cleanup |-> chk.last_cleanup,
              inactive_ips |-> chk.inactive_ips,
              status |-> IF chk.allowed THEN 200 ELSE 429, retry |-> chk.retry]

\* call_next(request): the route behind the middleware
CallNext(bk, lc, gone, rpm, ip, path, auth, t) ==
    IF path = VerifyCompletePath
    THEN VerifyComplete(bk, lc, gone, rpm, ip, auth, t)
    ELSE [buckets |-> bk, last_cleanup |-> lc, inactive_ips |-> gone,
          status |-> 200, retry |-> 0]

\* rate_limit_middleware(request, call_next)
RateLimitMiddleware(bk, lc, gone, rpm, ip, path, auth, t) ==
    IF path \in ExemptPaths
    THEN CallNext(bk, lc, gone, rpm, ip, path, auth, t)
    ELSE LET chk == CheckRateLimit(bk, lc, gone, rpm, ip, t)
         IN  IF ~chk.allowed
             THEN [buckets |-> chk.buckets, last_cleanup |-> chk.last_cleanup,
                   inactive_ips |-> chk.inactive_ips,
                   status |-> 429, retry |-> chk.retry]
             ELSE CallNext(chk.buckets, chk.last_cleanup, chk.inactive_ips,
                           rpm, ip, path, auth, t)

----------------------------------------------------------------------------
(* The event loop: uvicorn.run(app) serves every request as a task of one   *)
(* asyncio loop.  rate_limit_middleware and the endpoints are coroutines;   *)
(* check_rate_limit and consume are plain functions with no await, so a     *)
(* task that has entered the middleware runs its admission check to the     *)
(* end before any other task runs.  Tasks interleave at the awaits before   *)
(* the check (the outer middleware, the server reading the request) and     *)
(* after it (sending the response).                                         *)

Requests == 1..MaxInflight

\* the positions of a request task: not started, suspended before the
\* admission check, answered and not yet sent
Positions == {"idle", "waiting", "admitted", "rejected"}

NoBatch == [start |-> 0, before |-> 0, admitted |-> 0]

InitLoop ==
    /\ inflight = [i \in Requests |-> "idle"]
    /\ batch = NoBatch

----------------------------------------------------------------------------
(* Python values.  A dict is a function on the keys it holds; a float of    *)
(* the verification data is counted in hundredths; a value that may be a    *)
(* float or a str (the confidence of a face match) carries its type.        *)

EmptyDict == [k \in {} |-> k]

\* d.get(k, default)
Get(d, k, default) == IF k \in DOMAIN d THEN d[k] ELSE default

\* d[k] = v
Put(d, k, v) == [x \in DOMAIN d \cup {k} |-> IF x = k THEN v ELSE d[x]]

\* bool(d.get(k)) of a key that holds True or False when present
Truthy(d, k) == k \in DOMAIN d /\ d[k]

Float(x) == [float |-> x]
Str(x) == [str |-> x]
IsFloat(v) == "float" \in DOMAIN v

\* x in lst
Has(lst, x) == \E i \in DOMAIN lst : lst[i] = x

\* [a for a in attempts if t - a < delta]
Within(attempts, t, delta) == SelectSeq(attempts, LAMBDA a : t - a < delta)

----------------------------------------------------------------------------
(* FraudDetector *)

\* FraudDetector.__init__: attempt_history = {}, blacklist = set()
NewFraudDetector == [attempt_history |-> <<>>, blacklist |-> {}]

CheckAttemptFrequencyAfterAppend(fd, user_id, t) ==
    LET attempts == Within(Append(Get(fd.attempt_history, user_id, <<>>), t), t, Day)
        hourly == Len(Within(attempts, t, Hour)) >= MaxAttemptsPerHour
        daily == Len(attempts) >= MaxAttemptsPerDay
    IN  [attempt_history |-> Put(fd.attempt_history, user_id, attempts),
         score |-> (IF hourly THEN 30 ELSE 0) + (IF daily THEN 40 ELSE 0),
         flags |-> (IF hourly THEN <<"EXCESSIVE_ATTEMPTS_HOURLY">> ELSE <<>>)
                   \o (IF daily THEN <<"EXCESSIVE_ATTEMPTS_DAILY">> ELSE <<>>)]

CheckAttemptFrequencyStrict(fd, user_id, t) ==
    LET attempts == Get(fd.attempt_history, user_id, <<>>)
        hourly == Len(Within(attempts, t, Hour)) > MaxAttemptsPerHour
        daily == Len(Within(attempts, t, Day)) > MaxAttemptsPerDay
    IN  [attempt_history |->
             Put(fd.attempt_history, user_id, Within(Append(attempts, t), t, Day)),
         score |-> (IF hourly THEN 30 ELSE 0) + (IF daily THEN 40 ELSE 0),
         flags |-> (IF hourly THEN <<"EXCESSIVE_ATTEMPTS_HOURLY">> ELSE <<>>)
                   \o (IF daily THEN <<"EXCESSIVE_ATTEMPTS_DAILY">> ELSE <<>>)]

CheckAttemptFrequencyKeepAll(fd, user_id, t) ==
    LET attempts == Get(fd.attempt_history, user_id, <<>>)
        hourly == Len(Within(attempts, t, Hour)) >= MaxAttemptsPerHour
        daily == Len(Within(attempts, t, Day)) >= MaxAttemptsPerDay
    IN  [attempt_history |-> Put(fd.attempt_history, user_id, Append(attempts, t)),
         score |-> (IF hourly THEN 30 ELSE 0) + (IF daily THEN 40 ELSE 0),
         flags |-> (IF hourly THEN <<"EXCESSIVE_ATTEMPTS_HOURLY">> ELSE <<>>)
                   \o (IF daily THEN <<"EXCESSIVE_ATTEMPTS_DAILY">> ELSE <<>>)]

CheckAttemptFrequencyNoRecord(fd, user_id, t) ==
    LET attempts == Get(fd.attempt_history, user_id, <<>>)
        hourly == Len(Within(attempts, t, Hour)) >= MaxAttemptsPerHour
        daily == Len(Within(attempts, t, Day)) >= MaxAttemptsPerDay
    IN  [attempt_history |->
             Put(fd.attempt_history, user_id, Within(attempts, t, Day)),
         score |-> (IF hourly THEN 30 ELSE 0) + (IF daily THEN 40 ELSE 0),
         flags |-> (IF hourly THEN <<"EXCESSIVE_ATTEMPTS_HOURLY">> ELSE <<>>)
                   \o (IF daily THEN <<"EXCESSIVE_ATTEMPTS_DAILY">> ELSE <<>>)]

\* _check_attempt_frequency(user_id) at time t: the history afterwards, the
\* score and the flags
CheckAttemptFrequency(fd, user_id, t) ==
    LET attempts == Get(fd.attempt_history, user_id, <<>>)
        hourly == Len(Within(attempts, t, Hour)) >= MaxAttemptsPerHour
        daily == Len(Within(attempts, t, Day)) >= MaxAttemptsPerDay
    IN  [attempt_history |->
             Put(fd.attempt_history, user_id, Within(Append(attempts, t), t, Day)),
         score |-> (IF hourly THEN 30 ELSE 0) + (IF daily THEN 40 ELSE 0),
         flags |-> (IF hourly THEN <<"EXCESSIVE_ATTEMPTS_HOURLY">> ELSE <<>>)
                   \o (IF daily THEN <<"EXCESSIVE_ATTEMPTS_DAILY">> ELSE <<>>)]

\* datetime.utcnow().hour
HourOfDay(t) == (t \div Hour) % HoursPerDay

\* _check_time_anomaly() at time t
CheckTimeAnomaly(t) ==
    IF HourOfDay(t) \in SuspiciousHours
    THEN [score |-> 10, flags |-> <<"SUSPICIOUS_TIME_OF_DAY">>]
    ELSE [score |-> 0, flags |-> <<>>]

\* _check_device_signals(device_info)
CheckDeviceSignals(device_info) ==
    LET vpn == Truthy(device_info, "using_vpn")
        emulator == Truthy(device_info, "is_emulator")
        rooted == Truthy(device_info, "is_rooted")
        mismatch == Truthy(device_info, "device_mismatch")
    IN  [score |-> (IF vpn THEN 15 ELSE 0) + (IF emulator THEN 25 ELSE 0)
                   + (IF rooted THEN 20 ELSE 0) + (IF mismatch THEN 15 ELSE 0),
         flags |-> (IF vpn THEN <<"VPN_DETECTED">> ELSE <<>>)
                   \o (IF emulator THEN <<"EMULATOR_DETECTED">> ELSE <<>>)
                   \o (IF rooted THEN <<"ROOTED_DEVICE">> ELSE <<>>)
                   \o (IF mismatch THEN <<"DEVICE_MISMATCH">> ELSE <<>>)]

QualityCheckIndependent(d, key, failed_score, failed_flag, threshold, low_score, low_flag) ==
    LET confidence == Get(d, "confidence", Float(100))
        failed == ~Truthy(d, key)
        low == IsFloat(confidence) /\ confidence.float < threshold
    IN  [raised |-> ~IsFloat(confidence),
         score |-> (IF failed THEN failed_score ELSE 0) + (IF low THEN low_score ELSE 0),
         flags |-> (IF failed THEN <<failed_flag>> ELSE <<>>)
                   \o (IF low THEN <<low_flag>> ELSE <<>>)]

QualityCheckLabelAsHigh(d, key, failed_score, failed_flag, threshold, low_score, low_flag) ==
    IF ~Truthy(d, key)
    THEN [raised |-> FALSE, score |-> failed_score, flags |-> <<failed_flag>>]
    ELSE LET confidence == Get(d, "confidence", Float(100))
         IN  IF IsFloat(confidence) /\ confidence.float < threshold
             THEN [raised |-> FALSE, score |-> low_score, flags |-> <<low_flag>>]
             ELSE [raised |-> FALSE, score |-> 0, flags |-> <<>>]

\* one confidence check of _check_verification_quality on the dict d: the
\* result key is false or absent, or else the confidence is below the
\* threshold; comparing a str confidence with a float raises TypeError
QualityCheck(d, key, failed_score, failed_flag, threshold, low_score, low_flag) ==
    IF ~Truthy(d, key)
    THEN [raised |-> FALSE, score |-> failed_score, flags |-> <<failed_flag>>]
    ELSE LET confidence == Get(d, "confidence", Float(100))
         IN  IF ~IsFloat(confidence)
             THEN [raised |-> TRUE, score |-> 0, flags |-> <<>>]
             ELSE IF confidence.float < threshold
             THEN [raised |-> FALSE, score |-> low_score, flags |-> <<low_flag>>]
             ELSE [raised |-> FALSE, score |-> 0, flags |-> <<>>]

\* _check_verification_quality(verification_data)
CheckVerificationQuality(verification_data) ==
    LET face_match == Get(verification_data, "face_match", EmptyDict)
        liveness == Get(verification_data, "liveness", EmptyDict)
        face == QualityCheck(face_match, "match", 30, "FACE_MATCH_FAILED",
                             50, 20, "LOW_FACE_CONFIDENCE")
        live == QualityCheck(liveness, "is_live", 40, "LIVENESS_FAILED",
                             30, 25, "LOW_LIVENESS_CONFIDENCE")
        far == Get(face_match, "distance", 0) > 50
    IN  [raised |-> face.raised \/ live.raised,
         score |-> face.score + live.score + (IF far THEN 15 ELSE 0),
         flags |-> face.flags \o live.flags
                   \o (IF far THEN <<"HIGH_FACE_DISTANCE">> ELSE <<>>)]

\* _hash_device(device_info): the SHA-256 of "{device_id}-{ip_address}",
\* one digest for each fingerprint string
HashDevice(device_info) ==
    "sha256(" \o Get(device_info, "device_id", "") \o "-"
              \o Get(device_info, "ip_address", "") \o ")"

CheckBlacklistDeviceOnly(fd, user_id, device_info) ==
    LET device == HashDevice(device_info) \in fd.blacklist
    IN  [score |-> IF device THEN 100 ELSE 0,
         flags |-> IF device THEN <<"DEVICE_BLACKLISTED">> ELSE <<>>]

\* _check_blacklist(user_id, device_info)
CheckBlacklist(fd, user_id, device_info) ==
    LET user == user_id \in fd.blacklist
        device == HashDevice(device_info) \in fd.blacklist
    IN  [score |-> (IF user THEN 100 ELSE 0) + (IF device THEN 100 ELSE 0),
         flags |-> (IF user THEN <<"USER_BLACKLISTED">> ELSE <<>>)
                   \o (IF device THEN <<"DEVICE_BLACKLISTED">> ELSE <<>>)]

RiskTierLenient(score) ==
    IF score > 80 THEN [risk_level |-> "CRITICAL", recommendation |-> "REJECT"]
    ELSE IF score > 60 THEN [risk_level |-> "HIGH", recommendation |-> "REVIEW"]
    ELSE IF score > 40 THEN [risk_level |-> "MEDIUM", recommendation |-> "REVIEW"]
    ELSE [risk_level |-> "LOW", recommendation |-> "APPROVE"]

\* calculate_risk_score, lines 76-88: the risk level and the recommendation
RiskTier(score) ==
    IF score >= 80 THEN [risk_level |-> "CRITICAL", recommendation |-> "REJECT"]
    ELSE IF score >= 60 THEN [risk_level |-> "HIGH", recommendation |-> "REVIEW"]
    ELSE IF score >= 40 THEN [risk_level |-> "MEDIUM", recommendation |-> "REVIEW"]
    ELSE [risk_level |-> "LOW", recommendation |-> "APPROVE"]

\* calculate_risk_score(user_id, device_info, verification_data) at time t
\* on the detector fd: the detector afterwards and what the call returns.
\* The attempt is recorded before the quality check can raise.
CalculateRiskScore(fd, user_id, device_info, verification_data, t) ==
    LET frequency == CheckAttemptFrequency(fd, user_id, t)
        fd1 == [fd EXCEPT !.attempt_history = frequency.attempt_history]
        time == CheckTimeAnomaly(t)
        device == CheckDeviceSignals(device_info)
        quality == CheckVerificationQuality(verification_data)
        blacklisted == CheckBlacklist(fd1, user_id, device_info)
        score == frequency.score + time.score + device.score + quality.score
                 + blacklisted.score
        tier == RiskTier(score)
    IN  IF quality.raised
        THEN [detector |-> fd1, raised |-> TRUE]
        ELSE [detector |-> fd1, raised |-> FALSE,
              risk_score |-> Min(score, MaxRiskScore),
              risk_level |-> tier.risk_level,
              flags |-> frequency.flags \o time.flags \o device.flags
                        \o quality.flags \o blacklisted.flags,
              recommendation |-> tier.recommendation,
              details |-> [frequency_score |-> frequency.score,
                           time_score |-> time.score,
                           device_score |-> device.score,
                           quality_score |-> quality.score,
                           blacklist_score |-> blacklisted.score]]

AddToBlacklistLatestOnly(fd, user_id, device_info) ==
    [fd EXCEPT !.blacklist =
        (IF user_id # "" THEN {user_id} ELSE {})
        \cup (IF DOMAIN device_info # {} THEN {HashDevice(device_info)} ELSE {})]

\* add_to_blacklist(user_id, device_info); an argument left out (None) is
\* "" for the user id and the empty dict for the device, which the code's
\* truth tests treat alike
AddToBlacklist(fd, user_id, device_info) ==
    [fd EXCEPT !.blacklist =
        fd.blacklist
        \cup (IF user_id # "" THEN {user_id} ELSE {})
        \cup (IF DOMAIN device_info # {} THEN {HashDevice(device_info)} ELSE {})]

\* get_user_history(user_id) at time t
GetUserHistory(fd, user_id, t) ==
    LET attempts == Get(fd.attempt_history, user_id, <<>>)
    IN  [total_attempts |-> Len(attempts),
         attempts_last_hour |-> Len(Within(attempts, t, Hour)),
         attempts_last_day |-> Len(Within(attempts, t, Day)),
         is_blacklisted |-> user_id \in fd.blacklist]

(* The inputs of the scoring scenario *)

\* device_info maps: nothing, every field, one signal alone, every signal
\* and no identity
DeviceInfos ==
    {EmptyDict, CleanDevice,
     [using_vpn |-> TRUE],
     [using_vpn |-> TRUE, is_emulator |-> TRUE, is_rooted |-> TRUE,
      device_mismatch |-> TRUE]}

GoodFaceMatch == [match |-> TRUE, confidence |-> Float(95), distance |-> 20]
FailedFaceMatch == [match |-> FALSE, confidence |-> Float(10), distance |-> 80]

\* face_match maps with a float confidence, in hundredths: empty, good, low
\* confidence, confidence at and distance past their thresholds, no
\* confidence and distance at its threshold, failed
FaceMatches ==
    {EmptyDict, GoodFaceMatch,
     [match |-> TRUE, confidence |-> Float(49)],
     [match |-> TRUE, confidence |-> Float(50), distance |-> 51],
     [match |-> TRUE, distance |-> 50],
     FailedFaceMatch}

GoodLiveness == [is_live |-> TRUE, confidence |-> Float(90)]
FailedLiveness == [is_live |-> FALSE, confidence |-> Float(80)]

\* liveness maps: empty, good, confidence below and at its threshold, no
\* confidence, failed
Livenesses ==
    {EmptyDict, GoodLiveness,
     [is_live |-> TRUE, confidence |-> Float(29)],
     [is_live |-> TRUE, confidence |-> Float(30)],
     [is_live |-> TRUE],
     FailedLiveness}

\* verification_data maps: every face_match beside a good liveness, every
\* liveness beside a good face_match, both empty, both failed, either key
\* absent, both absent
VerificationDatas ==
    {[face_match |-> f, liveness |-> GoodLiveness] : f \in FaceMatches}
    \cup {[face_match |-> GoodFaceMatch, liveness |-> l] : l \in Livenesses}
    \cup {[face_match |-> EmptyDict, liveness |-> EmptyDict],
          [face_match |-> FailedFaceMatch, liveness |-> FailedLiveness],
          [face_match |-> GoodFaceMatch], [liveness |-> GoodLiveness], EmptyDict}

\* the numbers of attempts a user has made shortly before the scoring
\* scenario begins
PriorAttempts == {0, MaxAttemptsPerHour, MaxAttemptsPerDay}

\* the scoring scenario begins at 05:30 UTC, in the last suspicious hour
ScoreStart == 5 * Hour + Hour \div 2

----------------------------------------------------------------------------
(* KYCEnsemble.  The three classifiers read image files; what they return   *)
(* is drawn from the shapes their code builds.  Scores out of 100 and       *)
(* fractions in hundredths are whole numbers; the overall score is counted  *)
(* in hundredths of a point.                                                *)

\* DocumentVerifier.verify: a valid document, a suspicious one (too dark, no
\* face), an unreadable file
DocResults ==
    {[valid |-> TRUE, verdict |-> "VALID", confidence |-> Float(100),
      quality_score |-> 100, issues |-> <<>>],
     [valid |-> FALSE, verdict |-> "SUSPICIOUS", confidence |-> Float(50),
      quality_score |-> 55, issues |-> <<"TOO_DARK", "NO_FACE_DETECTED">>],
     [valid |-> FALSE, verdict |-> "INVALID", confidence |-> Float(100),
      issues |-> <<"UNREADABLE_IMAGE">>, error |-> "Cannot read image file"]}

\* FaceMatcher.verify: the confidence is a label, the similarity a
\* percentage; a match at distance 0.20, no match at distance 0.60, no face
FaceResults ==
    {[match |-> TRUE, distance |-> 20, confidence |-> Str("HIGH"),
      similarity |-> 80],
     [match |-> FALSE, distance |-> 60, confidence |-> Str("LOW"),
      similarity |-> 40],
     [error |-> "No face detected in one or both images", match |-> FALSE,
      confidence |-> Str("ERROR")]}

\* LivenessDetector.detect: live with score 0.90, spoof with score 0.30, no
\* image
LivenessResults ==
    {[is_live |-> TRUE, confidence |-> Float(80), score |-> 90, verdict |-> "LIVE"],
     [is_live |-> FALSE, confidence |-> Float(40), score |-> 30, verdict |-> "SPOOF"],
     [error |-> "Image not found", is_live |-> FALSE]}

\* self.weights, in hundredths
Weights == [document |-> 15, face_match |-> 35, liveness |-> 30, fraud |-> 20]

\* _calculate_overall_score(results), in hundredths of a point
CalculateOverallScore(results) ==
    LET document == Get(results.document, "quality_score", 0)
        face_match == IF Truthy(results.face_match, "match")
                      THEN Get(results.face_match, "similarity", 0) * 100
                      ELSE 0
        liveness == IF Truthy(results.liveness, "is_live")
                    THEN Get(results.liveness, "score", 50)
                    ELSE 0
        fraud == 100 - Get(results.fraud, "risk_score", 50)
    IN  document * Weights.document + face_match * Weights.face_match
        + liveness * Weights.liveness + fraud * Weights.fraud

CriticalFlagsNoBlacklist == {"FACE_MATCH_FAILED", "LIVENESS_FAILED"}

CriticalFlags ==
    {"FACE_MATCH_FAILED", "LIVENESS_FAILED", "USER_BLACKLISTED", "DEVICE_BLACKLISTED"}

\* _make_decision(overall_score, results, flags)
MakeDecision(overall_score, results, flags) ==
    LET risk_level == Get(results.fraud, "risk_level", "")
    IN  IF \E flag \in CriticalFlags : Has(flags, flag)
        THEN [verdict |-> "FAIL",
              recommendation |-> "Reject - Critical verification failure"]
        ELSE IF risk_level = "CRITICAL"
        THEN [verdict |-> "FAIL",
              recommendation |-> "Reject - Critical fraud risk detected"]
        ELSE IF overall_score >= PassThreshold * 100
        THEN IF risk_level \in {"HIGH", "MEDIUM"}
             THEN [verdict |-> "REVIEW", recommendation |->
                   "Manual review - High fraud risk despite good verification"]
             ELSE [verdict |-> "PASS", recommendation |-> "Approve - All checks passed"]
        ELSE IF overall_score < FailThreshold * 100
        THEN [verdict |-> "FAIL", recommendation |-> "Reject - Verification score too low"]
        ELSE [verdict |-> "REVIEW",
              recommendation |-> "Manual review - Borderline verification score"]

\* verify_kyc(user_id, id_photo_path, selfie_path, device_info) at time t on
\* the ensemble whose fraud detector is fd, the classifiers returning doc,
\* face and live: the detector afterwards and what the call returns.  The
\* exception of the fraud scoring is printed and raised again.
VerifyKycEnsemble(fd, user_id, device_info, doc, face, live, t) ==
    LET fraud == CalculateRiskScore(fd, user_id, device_info,
                                    [face_match |-> face, liveness |-> live], t)
    IN  IF fraud.raised
        THEN [detector |-> fraud.detector, raised |-> TRUE]
        ELSE LET results == [document |-> doc, face_match |-> face, liveness |-> live,
                             fraud |-> [x \in DOMAIN fraud \ {"detector", "raised"}
                                          |-> fraud[x]]]
                 flags == (IF ~doc.valid THEN Get(doc, "issues", <<>>) ELSE <<>>)
                          \o (IF "error" \in DOMAIN face \/ ~Truthy(face, "match")
                              THEN <<"FACE_MATCH_FAILED">> ELSE <<>>)
                          \o (IF "error" \in DOMAIN live \/ ~Truthy(live, "is_live")
                              THEN <<"LIVENESS_FAILED">> ELSE <<>>)
                          \o fraud.flags
                 overall_score == CalculateOverallScore(results)
                 decision == MakeDecision(overall_score, results, flags)
             IN  [detector |-> fraud.detector, raised |-> FALSE,
                  verdict |-> decision.verdict,
                  overall_score |-> overall_score,
                  recommendation |-> decision.recommendation,
                  flags |-> {flags[i] : i \in DOMAIN flags},
                  risk_level |-> fraud.risk_level,
                  risk_score |-> fraud.risk_score]

----------------------------------------------------------------------------
(* CrossArtifactAnalyzer.  Confidences and similarities are counted in      *)
(* hundredths, the GAN correlation in units of 0.00001 and the correlation  *)
(* score in units of 0.000001, so that gan_correlation * 0.3 is exact.      *)

CorrelationOne == 1000000        \* 1.0 in units of the correlation score
CorrelationDigit == 100          \* 0.0001, the last digit round(.., 4) keeps

\* d.get(key) == False
IsFalse(d, key) == key \in DOMAIN d /\ d[key] = FALSE

\* round(x, 4): to the nearest multiple of 0.0001, a tie to the even one
Round4(x) ==
    LET q == x \div CorrelationDigit
        r == x % CorrelationDigit
    IN  IF 2 * r > CorrelationDigit \/ (2 * r = CorrelationDigit /\ q % 2 = 1)
        THEN (q + 1) * CorrelationDigit
        ELSE q * CorrelationDigit

CorrelationTierAboveHalf(correlation_score) ==
    IF correlation_score >= 750000
    THEN [risk_level |-> "CRITICAL", prokyc_detected |-> TRUE]
    ELSE IF correlation_score > 500000
    THEN [risk_level |-> "HIGH", prokyc_detected |-> TRUE]
    ELSE IF correlation_score >= 300000
    THEN [risk_level |-> "MEDIUM", prokyc_detected |-> FALSE]
    ELSE [risk_level |-> "LOW", prokyc_detected |-> FALSE]

\* the tiers of analyze_correlation on a score
CorrelationTier(correlation_score) ==
    IF correlation_score >= 750000
    THEN [risk_level |-> "CRITICAL", prokyc_detected |-> TRUE]
    ELSE IF correlation_score >= 500000
    THEN [risk_level |-> "HIGH", prokyc_detected |-> TRUE]
    ELSE IF correlation_score >= 300000
    THEN [risk_level |-> "MEDIUM", prokyc_detected |-> FALSE]
    ELSE [risk_level |-> "LOW", prokyc_detected |-> FALSE]

FlaggedFakeOnlyWhenSaid(deepfake_result, document_result) ==
    IsFalse(deepfake_result, "is_real") \/ IsFalse(document_result, "is_genuine")

\* not deepfake_result.get('is_real') or not document_result.get('is_genuine')
FlaggedFake(deepfake_result, document_result) ==
    ~Truthy(deepfake_result, "is_real") \/ ~Truthy(document_result, "is_genuine")

\* analyze_correlation(.., deepfake_result, face_match_result,
\* document_result), _check_gan_fingerprints returning gan_correlation
AnalyzeCorrelation(deepfake_result, face_match_result, document_result, gan_correlation) ==
    LET video_fake == IsFalse(deepfake_result, "is_real")
        doc_fake == IsFalse(document_result, "is_genuine")
        all_fake == video_fake /\ doc_fake /\ IsFalse(face_match_result, "match")
        high_face_match == Get(face_match_result, "similarity", 0) > 90
        video_confidence == Get(deepfake_result, "confidence", 0)
        doc_confidence == Get(document_result, "confidence", 0)
        face_confidence == Get(face_match_result, "similarity", 0)
        high_confidence_fake ==
            /\ video_confidence > 95 /\ doc_confidence > 95 /\ face_confidence > 95
            /\ FlaggedFake(deepfake_result, document_result)
        sum == (IF all_fake THEN 400000 ELSE 0)
               + (IF high_face_match /\ video_fake /\ doc_fake THEN 500000 ELSE 0)
               + (IF high_confidence_fake THEN 300000 ELSE 0)
               + gan_correlation * 3
        correlation_score == IF sum < CorrelationOne THEN sum ELSE CorrelationOne
        tier == CorrelationTier(correlation_score)
    IN  [prokyc_signature_detected |-> tier.prokyc_detected,
         correlation_score |-> Round4(correlation_score),
         risk_level |-> tier.risk_level,
         suspicious_patterns |->
             (IF all_fake THEN {"All three inputs flagged as fraudulent"} ELSE {})
             \cup (IF high_face_match /\ video_fake /\ doc_fake
                   THEN {"High face similarity with fraudulent video and document (ProKYC indicator)"}
                   ELSE {})
             \cup (IF high_confidence_fake
                   THEN {"Unnaturally high confidence across all fake artifacts"}
                   ELSE {})
             \cup (IF gan_correlation > 70000
                   THEN {"Similar GAN artifacts detected across inputs"} ELSE {}),
         analysis_details |->
             [all_fake_pattern |-> all_fake,
              high_confidence_fake |-> video_confidence > 95 /\ doc_confidence > 95,
              impossible_combination |-> high_face_match /\ video_fake /\ doc_fake]]

\* results of the video detector: is_real and a confidence, the confidence
\* alone, or none of them
DeepfakeResults ==
    {EmptyDict, [confidence |-> 99]}
    \cup {[is_real |-> b, confidence |-> c] : b \in BOOLEAN, c \in {60, 99}}

\* results of the document detector, likewise
DocumentResults ==
    {EmptyDict, [confidence |-> 99]}
    \cup {[is_genuine |-> b, confidence |-> c] : b \in BOOLEAN, c \in {60, 99}}

\* results of the face matcher: the similarity as a fraction (0.40, 0.93,
\* 0.99) or as FaceMatcher's percentage (80.0)
FaceMatchResults ==
    {EmptyDict}
    \cup {[match |-> b, similarity |-> x] : b \in BOOLEAN, x \in {40, 93, 99, 8000}}

\* what _check_gan_fingerprints returns, a number between 0.0 and 1.0
GanCorrelations == {0, 33332, 33334, 50000, 66665, 71000, 100000}

----------------------------------------------------------------------------
(* calculate_overall_verdict.  The confidences and the similarity it reads  *)
(* are counted in hundredths and the correlation score in units of          *)
(* 0.000001, as above; the confidence and the risk score it returns are     *)
(* counted in units of 1/3000000, in which the mean of three hundredths and *)
(* a correlation score are both whole.                                      *)

ConfidenceUnit == 30000     \* 0.01 in units of the returned confidence
ScoreUnit == 3              \* 0.000001 in units of the returned confidence

\* min(a, b, c)
Min3(a, b, c) == Min(a, Min(b, c))

ProkycDetectedOnlyCritical(correlation_result) ==
    /\ Truthy(correlation_result, "prokyc_signature_detected")
    /\ Get(correlation_result, "risk_level", "LOW") = "CRITICAL"

\* prokyc_detected = correlation_result.get('prokyc_signature_detected', False)
ProkycDetected(correlation_result) ==
    Truthy(correlation_result, "prokyc_signature_detected")

LowConfidenceAtMost(video_confidence, doc_confidence, face_similarity) ==
    video_confidence <= 70 \/ doc_confidence <= 70 \/ face_similarity <= 70

\* video_confidence < 0.70 or doc_confidence < 0.70 or face_similarity < 0.70
LowConfidence(video_confidence, doc_confidence, face_similarity) ==
    video_confidence < 70 \/ doc_confidence < 70 \/ face_similarity < 70

\* calculate_overall_verdict(deepfake_result, face_match_result,
\* document_result, correlation_result)
CalculateOverallVerdict(deepfake_result, face_match_result, document_result, correlation_result) ==
    LET video_real == Truthy(deepfake_result, "is_real")
        video_confidence == Get(deepfake_result, "confidence", 0)
        face_match == Truthy(face_match_result, "match")
        face_similarity == Get(face_match_result, "similarity", 0)
        doc_genuine == Truthy(document_result, "is_genuine")
        doc_confidence == Get(document_result, "confidence", 0)
        prokyc_detected == ProkycDetected(correlation_result)
        correlation_score == Get(correlation_result, "correlation_score", 0)
        risk_level == Get(correlation_result, "risk_level", "LOW")
        lowest == Min3(video_confidence, doc_confidence, face_similarity)
        sum == video_confidence + doc_confidence + face_similarity
    IN  IF prokyc_detected
        THEN [verdict |-> "FAIL", confidence |-> 95 * ConfidenceUnit,
              risk_score |-> correlation_score * ScoreUnit, pass |-> FALSE,
              reason |-> "ProKYC signature detected"]
        ELSE IF ~video_real /\ video_confidence > 90
        THEN [verdict |-> "FAIL", confidence |-> video_confidence * ConfidenceUnit,
              risk_score |-> (100 - video_confidence) * ConfidenceUnit, pass |-> FALSE,
              reason |-> "Deepfake video detected"]
        ELSE IF ~doc_genuine /\ doc_confidence > 90
        THEN [verdict |-> "FAIL", confidence |-> doc_confidence * ConfidenceUnit,
              risk_score |-> (100 - doc_confidence) * ConfidenceUnit, pass |-> FALSE,
              reason |-> "Fraudulent document detected"]
        ELSE IF ~face_match
        THEN [verdict |-> "FAIL", confidence |-> (100 - face_similarity) * ConfidenceUnit,
              risk_score |-> (100 - face_similarity) * ConfidenceUnit, pass |-> FALSE,
              reason |-> "Face does not match ID"]
        ELSE IF risk_level = "HIGH" \/ correlation_score > 500000
        THEN [verdict |-> "SUSPICIOUS", confidence |-> 70 * ConfidenceUnit,
              risk_score |-> correlation_score * ScoreUnit, pass |-> FALSE,
              reason |-> "High correlation (risk: " \o risk_level \o ")"]
        ELSE IF LowConfidence(video_confidence, doc_confidence, face_similarity)
        THEN [verdict |-> "SUSPICIOUS", confidence |-> lowest * ConfidenceUnit,
              risk_score |-> (100 - lowest) * ConfidenceUnit, pass |-> FALSE,
              reason |-> "Low confidence in verification"]
        ELSE IF video_real /\ doc_genuine /\ face_match
        THEN [verdict |-> "PASS", confidence |-> sum * (ConfidenceUnit \div 3),
              risk_score |-> 100 * ConfidenceUnit - sum * (ConfidenceUnit \div 3),
              pass |-> TRUE, reason |-> "All checks passed"]
        ELSE [verdict |-> "SUSPICIOUS", confidence |-> 50 * ConfidenceUnit,
              risk_score |-> 50 * ConfidenceUnit, pass |-> FALSE,
              reason |-> "Inconclusive results"]

\* VideoDeepfakeDetector.detect: no result, the error result, and REAL or
\* FAKE with the confidence of the verdict
VideoDetections ==
    {EmptyDict,
     [is_real |-> FALSE, verdict |-> "ERROR", confidence |-> 0,
      error |-> "Video file not found"]}
    \cup {[is_real |-> b, verdict |-> IF b THEN "REAL" ELSE "FAKE", confidence |-> c] :
             b \in BOOLEAN, c \in {60, 70, 90, 91, 95, 96}}

\* DocumentFraudDetector.detect: no result, the error result, and GENUINE
\* or FRAUDULENT with the confidence of the verdict
DocumentDetections ==
    {EmptyDict,
     [is_genuine |-> FALSE, verdict |-> "ERROR", confidence |-> 0,
      error |-> "Document file not found"]}
    \cup {[is_genuine |-> b, verdict |-> IF b THEN "GENUINE" ELSE "FRAUDULENT",
           confidence |-> c] : b \in BOOLEAN, c \in {60, 70, 91, 92, 96}}

\* the face match result handed to the cascade: no result, an error result,
\* and a match or no match with the similarity as a fraction
FaceDetections ==
    {EmptyDict,
     [error |-> "No face detected in one or both images", match |-> FALSE,
      confidence |-> Str("ERROR")]}
    \cup {[match |-> b, similarity |-> x] : b \in BOOLEAN, x \in {40, 69, 70, 92, 96}}

\* correlation results: none, and every pairing of the three fields
CorrelationResults ==
    {EmptyDict}
    \cup {[prokyc_signature_detected |-> b, correlation_score |-> x, risk_level |-> l] :
             b \in BOOLEAN, x \in {0, 300000, 500000, 500100, 800000},
             l \in {"LOW", "MEDIUM", "HIGH", "CRITICAL"}}

\* inputs of _make_decision: overall scores around the two thresholds, in
\* hundredths of a point, the risk levels of the fraud result (or none),
\* and lists of flags
OverallScores == {0, 3999, 4000, 7499, 7500, 10000}

RiskLevels == {"LOW", "MEDIUM", "HIGH", "CRITICAL"}

FraudResults == {EmptyDict} \cup {[risk_level |-> l] : l \in RiskLevels}

FlagLists ==
    {<<>>, <<"TOO_DARK", "NO_FACE_DETECTED">>, <<"VPN_DETECTED">>,
     <<"FACE_MATCH_FAILED">>, <<"LIVENESS_FAILED">>, <<"USER_BLACKLISTED">>,
     <<"DEVICE_BLACKLISTED">>, <<"TOO_DARK", "LIVENESS_FAILED", "VPN_DETECTED">>,
     <<"FACE_MATCH_FAILED", "LIVENESS_FAILED", "USER_BLACKLISTED">>}

\* fraud results by their risk score, and none
FraudScores == {EmptyDict} \cup {[risk_score |-> x] : x \in {0, 30, 70, MaxRiskScore}}

NoResult == [op |-> "none"]

InitDetectors ==
    /\ fraud_detector = NewFraudDetector
    /\ kyc_fraud_detector = NewFraudDetector
    /\ calls = <<>>
    /\ result = NoResult

----------------------------------------------------------------------------
(* Actions *)

NoResp == [ip |-> "", path |-> "", allowed |-> TRUE, status |-> 0, retry |-> 0]

\* the state after rate_limiter = RateLimiter(requests_per_minute=60)
Init ==
    /\ requests_per_minute = GlobalRate
    /\ buckets = <<>>
    /\ last_cleanup = 0
    /\ inactive_ips = {}
    /\ now = 0
    /\ resp = NoResp
    /\ run = NoRun
    /\ InitLoop
    /\ InitDetectors

\* the state after limiter = RateLimiter(requests_per_minute=5) of the tests
InitTest ==
    /\ requests_per_minute \in TestRates
    /\ buckets = <<>>
    /\ last_cleanup = 0
    /\ inactive_ips = {}
    /\ now = 0
    /\ resp = NoResp
    /\ run = NoRun
    /\ InitLoop
    /\ InitDetectors

\* one HTTP request of client ip to path, answered
Request(ip, path, auth) ==
    \E r \in {RateLimitMiddleware(buckets, last_cleanup, inactive_ips,
                                 requests_per_minute, ip, path, auth, now)} :
        /\ buckets' = r.buckets
        /\ last_cleanup' = r.last_cleanup
        /\ inactive_ips' = r.inactive_ips
        /\ resp' = [ip |-> ip, path |-> path, allowed |-> r.status # 429,
                    status |-> r.status, retry |-> r.retry]
        /\ run' = NextRun(run, ip, path, buckets, requests_per_minute, now)
        /\ UNCHANGED <<requests_per_minute, now, loopVars, fraudVars>>

\* limiter.check_rate_limit(request) called directly, as the tests do
Check(ip) ==
    \E r \in {CheckRateLimit(buckets, last_cleanup, inactive_ips,
                            requests_per_minute, ip, now)} :
        /\ buckets' = r.buckets
        /\ last_cleanup' = r.last_cleanup
        /\ inactive_ips' = r.inactive_ips
        /\ resp' = [ip |-> ip, path |-> TestPath, allowed |-> r.allowed,
                    status |-> 0, retry |-> r.retry]
        /\ run' = NextRun(run, ip, TestPath, buckets, requests_per_minute, now)
        /\ UNCHANGED <<requests_per_minute, now, loopVars, fraudVars>>

\* time passes: d seconds, the clock staying below limit
Tick(d, limit) ==
    /\ now + d <= limit
    /\ now' = now + d
    /\ UNCHANGED <<requests_per_minute, buckets, last_cleanup, inactive_ips, resp, run,
                   loopVars, fraudVars>>

\* the outcomes of the authentication dependency that change what a route does
AuthOutcomes(path) == IF path = VerifyCompletePath THEN BOOLEAN ELSE {TRUE}

Next ==
    \/ \E path \in Paths : \E auth \in AuthOutcomes(path) : Request(AppClient, path, auth)
    \/ Tick(AppStep, MaxTicks * AppStep)

Spec == Init /\ [][Next]_vars

\* one client of a test limiter, time passing in steps shorter than a refill
NextBucket ==
    \/ Check(AppClient)
    \/ \E k \in {1, 5} : Tick(k * BucketStep, MaxBucketTicks * BucketStep)

SpecBucket == InitTest /\ [][NextBucket]_vars

\* two clients of a test limiter, time passing in steps longer than the
\* cleanup interval
NextTest ==
    \/ \E ip \in Clients : Check(ip)
    \/ Tick(TestStep, MaxTestTicks * TestStep)

SpecTest == InitTest /\ [][NextTest]_vars

\* a test limiter whose registry already holds buckets that were looked up
\* (self.buckets[ip] inserts a full bucket) and not yet consumed from
InitCleanup ==
    /\ requests_per_minute \in TestRates
    /\ \E held \in SUBSET Clients :
          buckets = [ip \in held |-> NewBucket(requests_per_minute, 0)]
    /\ last_cleanup = 0
    /\ inactive_ips = {}
    /\ now = 0
    /\ resp = NoResp
    /\ run = NoRun
    /\ InitLoop
    /\ InitDetectors

SpecCleanup == InitCleanup /\ [][NextTest]_vars

\* one call of fraud_detector.calculate_risk_score, as POST /fraud/score
\* makes it; a user makes at most limit calls from the time since on
Score(user_id, device_info, verification_data, since, limit) ==
    /\ Len(SelectSeq(Get(calls, user_id, <<>>), LAMBDA c : c >= since)) < limit
    /\ \E r \in {CalculateRiskScore(fraud_detector, user_id, device_info,
                                    verification_data, now)} :
        /\ fraud_detector' = r.detector
        /\ result' = [op |-> "score", user_id |-> user_id,
                      device_info |-> device_info,
                      verification_data |-> verification_data, at |-> now,
                      out |-> [x \in DOMAIN r \ {"detector"} |-> r[x]]]
    /\ calls' = Put(calls, user_id, Append(Get(calls, user_id, <<>>), now))
    /\ UNCHANGED <<requests_per_minute, buckets, last_cleanup, inactive_ips, now,
                   resp, run, loopVars, kyc_fraud_detector>>

\* verification data with every signal good
GoodVerification == [face_match |-> GoodFaceMatch, liveness |-> GoodLiveness]

\* one user scored again and again with good signals, the clock moving by
\* half hours at first and then by 23 hours
NextFreq ==
    \/ Score(FreqUser, CleanDevice, GoodVerification, 0, MaxCalls)
    \/ Tick(Hour \div 2, MaxHourTicks * (Hour \div 2))
    \/ Tick(Day - Hour, Day)

SpecFreq == Init /\ [][NextFreq]_vars

\* POST /fraud/blacklist/add: with neither argument the handler raises, and
\* its except clause answers 500
Blacklist(user_id, device_info) ==
    /\ fraud_detector' =
          IF user_id = "" /\ DOMAIN device_info = {} THEN fraud_detector
          ELSE AddToBlacklist(fraud_detector, user_id, device_info)
    /\ result' = [op |-> "blacklist", user_id |-> user_id,
                  device_info |-> device_info, at |-> now,
                  status |-> IF user_id = "" /\ DOMAIN device_info = {}
                             THEN 500 ELSE 200]
    /\ UNCHANGED <<requests_per_minute, buckets, last_cleanup, inactive_ips, now,
                   resp, run, loopVars, kyc_fraud_detector, calls>>

\* GET /fraud/history/{user_id}
History(user_id) ==
    /\ result' = [op |-> "history", user_id |-> user_id, at |-> now,
                  out |-> GetUserHistory(fraud_detector, user_id, now)]
    /\ UNCHANGED <<requests_per_minute, buckets, last_cleanup, inactive_ips, now,
                   resp, run, loopVars, fraud_detector, kyc_fraud_detector, calls>>

\* the detector after FreqUser was scored k times one second before the
\* scenario begins
InitScore ==
    /\ requests_per_minute = GlobalRate
    /\ buckets = <<>>
    /\ last_cleanup = 0
    /\ inactive_ips = {}
    /\ now = ScoreStart
    /\ resp = NoResp
    /\ run = NoRun
    /\ InitLoop
    /\ \E k \in PriorAttempts :
        /\ fraud_detector =
              IF k = 0 THEN NewFraudDetector
              ELSE [NewFraudDetector EXCEPT
                      !.attempt_history = Put(<<>>, FreqUser, [i \in 1..k |-> ScoreStart - 1])]
        /\ calls = IF k = 0 THEN <<>> ELSE Put(<<>>, FreqUser, [i \in 1..k |-> ScoreStart - 1])
    /\ kyc_fraud_detector = NewFraudDetector
    /\ result = NoResult

\* scoring with every input, blacklisting and history reads, the clock
\* moving by half hours
NextScore ==
    \/ \E d \in DeviceInfos, v \in VerificationDatas :
          Score(FreqUser, d, v, ScoreStart, MaxScoreCalls)
    \/ \E u \in {"", FreqUser}, d \in {EmptyDict, CleanDevice} : Blacklist(u, d)
    \/ History(FreqUser)
    \/ Tick(Hour \div 2, ScoreStart + MaxScoreTicks * (Hour \div 2))

SpecScore == InitScore /\ [][NextScore]_vars

\* verification data whose face match carries FaceMatcher's confidence label
LabelVerification ==
    [face_match |-> [match |-> TRUE, confidence |-> Str("HIGH"), distance |-> 20],
     liveness |-> GoodLiveness]

\* two users scored from one device, history reads, a blacklisting, the
\* clock moving by half days
NextAttempts ==
    \/ \E u \in Users, v \in {GoodVerification, LabelVerification} :
          Score(u, CleanDevice, v, 0, MaxAttemptCalls)
    \/ \E u \in Users : History(u)
    \/ \E u \in Users : Blacklist(u, EmptyDict)
    \/ Tick(Day \div 2, MaxAttemptTicks * (Day \div 2))

SpecAttempts == Init /\ [][NextAttempts]_vars

KycUser == "user-1"

\* POST /kyc/verify: the handler builds device_info from the form fields and
\* calls kyc_ensemble.verify_kyc; an exception is answered 500.  A user is
\* verified at most limit times a day.
Verify(user_id, device_id, ip_address, using_vpn, is_emulator, is_rooted, doc, face, live, limit) ==
    /\ Len(Get(kyc_fraud_detector.attempt_history, user_id, <<>>)) < limit
    /\ \E r \in {VerifyKycEnsemble(kyc_fraud_detector, user_id,
                      [device_id |-> device_id, ip_address |-> ip_address,
                       using_vpn |-> using_vpn, is_emulator |-> is_emulator,
                       is_rooted |-> is_rooted, device_mismatch |-> FALSE],
                      doc, face, live, now)} :
        /\ kyc_fraud_detector' = r.detector
        /\ result' = [op |-> "verify", user_id |-> user_id,
                      device_id |-> device_id, ip_address |-> ip_address,
                      document |-> doc, face |-> face, liveness |-> live,
                      at |-> now, status |-> IF r.raised THEN 500 ELSE 200,
                      out |-> [x \in DOMAIN r \ {"detector"} |-> r[x]]]
    /\ UNCHANGED <<requests_per_minute, buckets, last_cleanup, inactive_ips, now,
                   resp, run, loopVars, fraud_detector, calls>>

\* blacklisting through the fraud API and full-KYC verifications of one
\* user from one device, the clock moving by six hours
NextKyc ==
    \/ \E u \in {"", KycUser}, d \in {EmptyDict, CleanDevice} : Blacklist(u, d)
    \/ \E vpn \in BOOLEAN, doc \in DocResults, face \in FaceResults,
          live \in LivenessResults :
          Verify(KycUser, CleanDevice.device_id, CleanDevice.ip_address,
                 vpn, FALSE, FALSE, doc, face, live, MaxVerifications)
    \/ Tick(Day \div 4, MaxKycTicks * (Day \div 4))

SpecKyc == Init /\ [][NextKyc]_vars

\* one call of analyze_correlation
Analyze(deepfake_result, face_match_result, document_result, gan_correlation) ==
    /\ result' = [op |-> "correlate", deepfake |-> deepfake_result,
                  face_match |-> face_match_result, document |-> document_result,
                  gan_correlation |-> gan_correlation,
                  out |-> AnalyzeCorrelation(deepfake_result, face_match_result,
                                             document_result, gan_correlation)]
    /\ UNCHANGED <<requests_per_minute, buckets, last_cleanup, inactive_ips, now,
                   resp, run, loopVars, fraud_detector, kyc_fraud_detector, calls>>

\* the analyzer keeps no state, so one call per behaviour covers every call
NextCorr ==
    /\ result = NoResult
    /\ \E v \in DeepfakeResults, f \in FaceMatchResults, d \in DocumentResults,
          g \in GanCorrelations : Analyze(v, f, d, g)

SpecCorr == Init /\ [][NextCorr]_vars

\* one call of calculate_overall_verdict on a correlation result of any
\* content
Verdict(deepfake_result, face_match_result, document_result, correlation_result) ==
    /\ result' = [op |-> "verdict", deepfake |-> deepfake_result,
                  face_match |-> face_match_result, document |-> document_result,
                  correlation |-> correlation_result,
                  out |-> CalculateOverallVerdict(deepfake_result, face_match_result,
                                                  document_result, correlation_result)]
    /\ UNCHANGED <<requests_per_minute, buckets, last_cleanup, inactive_ips, now,
                   resp, run, loopVars, fraud_detector, kyc_fraud_detector, calls>>

\* steps 4 and 5 of verify_kyc_complete: analyze_correlation on the three
\* results, then calculate_overall_verdict on them and on its result
Decide(deepfake_result, face_match_result, document_result, gan_correlation) ==
    /\ \E c \in {AnalyzeCorrelation(deepfake_result, face_match_result,
                                     document_result, gan_correlation)} :
        result' = [op |-> "decide", deepfake |-> deepfake_result,
                   face_match |-> face_match_result, document |-> document_result,
                   gan_correlation |-> gan_correlation, correlation |-> c,
                   out |-> CalculateOverallVerdict(deepfake_result, face_match_result,
                                                   document_result, c)]
    /\ UNCHANGED <<requests_per_minute, buckets, last_cleanup, inactive_ips, now,
                   resp, run, loopVars, fraud_detector, kyc_fraud_detector, calls>>

\* the functions keep no state, so one call per behaviour covers every call
NextVerdict ==
    \/ /\ result = NoResult
       /\ \E v \in VideoDetections, f \in FaceDetections, d \in DocumentDetections,
             c \in CorrelationResults : Verdict(v, f, d, c)
    \/ /\ result = NoResult
       /\ \E v \in VideoDetections, f \in FaceDetections, d \in DocumentDetections,
             g \in GanCorrelations : Decide(v, f, d, g)

SpecVerdict == Init /\ [][NextVerdict]_vars

\* one call of _calculate_overall_score on the results of the four
\* components
Overall(doc, face, live, fraud) ==
    /\ result' = [op |-> "overall", document |-> doc, face |-> face,
                  liveness |-> live, fraud |-> fraud,
                  out |-> CalculateOverallScore(
                              [document |-> doc, face_match |-> face,
                               liveness |-> live, fraud |-> fraud])]
    /\ UNCHANGED <<requests_per_minute, buckets, last_cleanup, inactive_ips, now,
                   resp, run, loopVars, fraud_detector, kyc_fraud_detector, calls>>

NextOverall ==
    \E doc \in DocResults, face \in FaceResults, live \in LivenessResults,
       fraud \in FraudScores : Overall(doc, face, live, fraud)

SpecOverall == Init /\ [][NextOverall]_vars

\* one call of _make_decision
Decision(overall_score, fraud, flags) ==
    /\ \E r \in {MakeDecision(overall_score, [fraud |-> fraud], flags)} :
        result' = [op |-> "decision", overall_score |-> overall_score,
                   risk_level |-> Get(fraud, "risk_level", ""),
                   flags |-> {flags[i] : i \in DOMAIN flags}, out |-> r]
    /\ UNCHANGED <<requests_per_minute, buckets, last_cleanup, inactive_ips, now,
                   resp, run, loopVars, fraud_detector, kyc_fraud_detector, calls>>

NextDecision ==
    \E overall_score \in OverallScores, fraud \in FraudResults, flags \in FlagLists :
        Decision(overall_score, fraud, flags)

SpecDecision == Init /\ [][NextDecision]_vars

\* the two orchestration modes side by side: the cascade of
\* verify_kyc_complete and the weighted verification of POST /kyc/verify
\* the cascade keeps no state and a verification does not read the last
\* result, so the verifications that follow a cascade call are those that
\* follow none
NextModes ==
    \/ NextVerdict
    \/ /\ result.op \notin {"verdict", "decide"}
       /\ \E vpn \in BOOLEAN, doc \in DocResults, face \in FaceResults,
             live \in LivenessResults :
             Verify(KycUser, CleanDevice.device_id, CleanDevice.ip_address,
                    vpn, FALSE, FALSE, doc, face, live, MaxVerifications)

SpecModes == Init /\ [][NextModes]_vars

\* the path the concurrent requests ask for: one admission check each
LoopPath == KycHealthPath

\* the token count the bucket of ip holds once refilled at the present time
\* (a client without a bucket gets a full one)
Available(ip) ==
    IF ip \in DOMAIN buckets
    THEN Min(Fixed(buckets[ip].capacity),
             buckets[ip].tokens + (now - buckets[ip].last_refill) * buckets[ip].refill_rate)
    ELSE Fixed(requests_per_minute)

\* a request of AppClient is accepted by the server: its task is created and
\* suspends before the rate limiter runs
Arrive(i) ==
    /\ inflight[i] = "idle"
    /\ inflight' = [inflight EXCEPT ![i] = "waiting"]
    /\ batch' = IF \A j \in Requests : inflight[j] = "idle"
                THEN [start |-> now, before |-> Available(AppClient), admitted |-> 0]
                ELSE batch
    /\ UNCHANGED <<requests_per_minute, buckets, last_cleanup, inactive_ips, now,
                   resp, run, fraudVars>>

\* the loop resumes task i: rate_limit_middleware runs up to its answer
Dispatch(i) ==
    /\ inflight[i] = "waiting"
    /\ \E r \in {RateLimitMiddleware(buckets, last_cleanup, inactive_ips,
                                     requests_per_minute, AppClient, LoopPath, TRUE, now)} :
        /\ buckets' = r.buckets
        /\ last_cleanup' = r.last_cleanup
        /\ inactive_ips' = r.inactive_ips
        /\ resp' = [ip |-> AppClient, path |-> LoopPath, allowed |-> r.status # 429,
                    status |-> r.status, retry |-> r.retry]
        /\ inflight' = [inflight EXCEPT
                           ![i] = IF r.status = 429 THEN "rejected" ELSE "admitted"]
        /\ batch' = IF r.status = 429 THEN batch
                    ELSE [batch EXCEPT !.admitted = batch.admitted + 1]
    /\ run' = NextRun(run, AppClient, LoopPath, buckets, requests_per_minute, now)
    /\ UNCHANGED <<requests_per_minute, now, fraudVars>>

\* the response of task i is sent and the task ends
Respond(i) ==
    /\ inflight[i] \in {"admitted", "rejected"}
    /\ inflight' = [inflight EXCEPT ![i] = "idle"]
    /\ UNCHANGED <<requests_per_minute, buckets, last_cleanup, inactive_ips, now,
                   resp, run, batch, fraudVars>>

NextLoop ==
    \/ \E i \in Requests : Arrive(i)
    \/ \E i \in Requests : Dispatch(i)
    \/ \E i \in Requests : Respond(i)
    \/ Tick(AppStep, MaxLoopTicks * AppStep)

SpecLoop == Init /\ [][NextLoop]_vars

----------------------------------------------------------------------------
(* Claims *)

\* a step that is one admission check (or one HTTP request): it is no clock
\* step; resp' names the client and the path
IsCall == now' = now

\* C1: in every reachable state every bucket's stored token count lies
\* between 0 and its capacity.
C1_TokensWithinCapacity ==
    \A ip \in DOMAIN buckets :
        /\ 0 <= buckets[ip].tokens
        /\ buckets[ip].tokens <= Fixed(buckets[ip].capacity)

\* C1 witness: a bucket that was consumed, refilled over time up to its
\* capacity and consumed again.
C1_Witness ==
    \E ip \in DOMAIN buckets :
        /\ run.ip = ip /\ run.n >= 2
        /\ buckets[ip].last_refill > run.start
        /\ buckets[ip].tokens = Fixed(buckets[ip].capacity - 1)

\* C3: with no time passing between admission calls on one bucket the stored
\* token count never increases and never goes negative, and a fresh bucket of
\* capacity C admits exactly its first C calls and rejects every later one.
C3_NoTimeMonotone ==
    /\ [](run.fresh /\ run.n >= 1 /\ run.start = now /\ run.ip \in DOMAIN buckets
            => (resp.allowed <=> run.n <= buckets[run.ip].capacity))
    /\ [][\A ip \in DOMAIN buckets :
            (IsCall /\ resp'.ip = ip /\ buckets[ip].last_refill = now)
            => /\ ip \in DOMAIN buckets'
               /\ buckets'[ip].tokens <= buckets[ip].tokens
               /\ buckets'[ip].tokens >= 0]_vars

\* C3 witness: the call after the C-th on a fresh bucket, at the instant of
\* its creation, was rejected with the bucket empty.
C3_Witness ==
    /\ run.fresh /\ run.start = now /\ run.ip \in DOMAIN buckets
    /\ run.n = buckets[run.ip].capacity + 1
    /\ ~resp.allowed
    /\ buckets[run.ip].tokens = 0

C2_SixtyFirstRejected ==
    (/\ run.fresh /\ run.n = GlobalRate + 1
     /\ now - run.start <= SecondsPerMinute
     /\ run.path \notin ExemptPaths /\ run.path # VerifyCompletePath)
    => (~resp.allowed /\ resp.retry > 0)

\* C5: a cleanup pass runs only more than 300 seconds after the previous one;
\* no bucket below capacity is ever removed, and a pass removes every bucket
\* it finds at full capacity.
C5_CleanupCriterion ==
    [][IsCall =>
        /\ last_cleanup' # last_cleanup => now - last_cleanup > CleanupInterval
        /\ \A ip \in DOMAIN buckets :
            /\ buckets[ip].tokens < Fixed(buckets[ip].capacity)
                 => ip \in DOMAIN buckets'
            /\ (/\ buckets[ip].tokens >= Fixed(buckets[ip].capacity)
                /\ ip # resp'.ip
                /\ last_cleanup' # last_cleanup)
                 => (ip \notin DOMAIN buckets' /\ ip \in inactive_ips')]_vars

\* C5 witness: a cleanup pass has removed a full bucket and kept one below
\* capacity.
C5_Witness ==
    /\ inactive_ips # {}
    /\ last_cleanup = now
    /\ \E ip \in DOMAIN buckets : buckets[ip].tokens < Fixed(buckets[ip].capacity)

\* C6: a bucket that has been idle for longer than a whole cleanup interval
\* (so it would be full again) when a cleanup pass runs is gone from the
\* registry after that pass.
C6_IdleBucketEvicted ==
    \A ip \in DOMAIN buckets :
        ~(last_cleanup - buckets[ip].last_refill > CleanupInterval)

\* C7 as claimed: a request to a health-check or documentation path, the
\* per-service health routes included, changes no bucket and is not answered
\* 429.
C7_HealthAndDocsExempt ==
    [][(IsCall /\ resp'.path \in {HealthPath, KycHealthPath} \cup DocPaths)
        => (buckets' = buckets /\ resp'.status # 429)]_vars

\* C7 amended: a request to /health, /docs, /redoc or /openapi.json changes no
\* bucket and is not answered 429; a request to a per-service health route
\* is checked like any other: it takes one token, or is answered 429 when
\* the client's bucket holds less than one.
C7_ExactPathsExempt ==
    [][IsCall =>
        /\ resp'.path \in {HealthPath} \cup DocPaths
             => (buckets' = buckets /\ resp'.status # 429)
        /\ resp'.path = KycHealthPath
             => \/ /\ Available(resp'.ip) < Fixed(1)
                   /\ resp'.status = 429
                \/ /\ Available(resp'.ip) >= Fixed(1)
                   /\ resp'.status = 200
                   /\ resp'.ip \in DOMAIN buckets'
                   /\ buckets'[resp'.ip].tokens = Available(resp'.ip) - Fixed(1)]_vars

\* C7 witness: a client whose bucket is empty was answered 200 on /health.
C7_Witness ==
    /\ resp.path = HealthPath /\ resp.status = 200
    /\ resp.ip \in DOMAIN buckets
    /\ Available(resp.ip) < Fixed(1)

\* C8: of the rapid requests of one client to the root path, the first 60 are
\* answered 200 and every later one 429.
C8_RootLimited ==
    (run.path = RootPath /\ run.n >= 1 /\ run.fresh /\ run.start = now)
    => (IF run.n <= GlobalRate THEN resp.status = 200 ELSE resp.status = 429)

\* C9: of the rapid requests of one client with a fresh bucket to
\* /kyc/verify-complete, the first 60 pass rate limiting and the 61st is
\* rejected.
C9_VerifyCompleteSixty ==
    (run.path = VerifyCompletePath /\ run.n >= 1 /\ run.fresh /\ run.start = now)
    => (IF run.n <= GlobalRate THEN resp.status # 429 ELSE resp.status = 429)

\* C10: an admission check of one client leaves every other client's bucket
\* as it was: neither created, removed nor changed.
C10_KeysIndependent ==
    [][IsCall =>
        \A ip \in Clients \ {resp'.ip} :
            /\ ip \in DOMAIN buckets <=> ip \in DOMAIN buckets'
            /\ ip \in DOMAIN buckets => buckets'[ip] = buckets[ip]]_vars

\* C10 witness: one client was rejected, after a cleanup pass, while the
\* other client's bucket still holds the tokens it had before.
C10_Witness ==
    \E a \in Clients, b \in Clients :
        /\ a # b
        /\ resp.ip = a /\ ~resp.allowed
        /\ last_cleanup > 0
        /\ b \in DOMAIN buckets
        /\ buckets[b].last_refill < last_cleanup
        /\ buckets[b].tokens >= Fixed(1)

\* C11: while requests of one client are in flight together and no time has
\* passed since the first of them arrived, the number admitted is at most the
\* tokens that were available then, and the client's token count is lower
\* than it was then by exactly the number admitted, in every interleaving.
C11_NoLostUpdate ==
    (batch.start = now /\ \E i \in Requests : inflight[i] # "idle")
    => /\ Fixed(batch.admitted) <= batch.before
       /\ Available(AppClient) = batch.before - Fixed(batch.admitted)

\* C11 witness: of two requests in flight together one was admitted with the
\* last token and the other rejected.
C11_Witness ==
    /\ batch.start = now
    /\ batch.admitted = 1 /\ batch.before = Fixed(1)
    /\ \E i \in Requests, j \in Requests :
          inflight[i] = "admitted" /\ inflight[j] = "rejected"

\* the scoring call the last result belongs to was the user's k-th call less
\* than delta before it, itself included
KthWithin(delta) == Len(Within(calls[result.user_id], result.at, delta))

\* C12 as claimed: the k-th scoring call of a user within one hour is flagged
\* EXCESSIVE_ATTEMPTS_HOURLY exactly when k >= 5, and the k-th within 24
\* hours EXCESSIVE_ATTEMPTS_DAILY exactly when k >= 20.
C12_CountsIncludeCurrent ==
    (result.op = "score" /\ ~result.out.raised)
    => /\ Has(result.out.flags, "EXCESSIVE_ATTEMPTS_HOURLY")
            <=> KthWithin(Hour) >= MaxAttemptsPerHour
       /\ Has(result.out.flags, "EXCESSIVE_ATTEMPTS_DAILY")
            <=> KthWithin(Day) >= MaxAttemptsPerDay

\* C12 amended: the counts do not include the current attempt: the k-th call
\* within one hour is flagged EXCESSIVE_ATTEMPTS_HOURLY (+30) exactly when
\* k >= 6, and the k-th within 24 hours EXCESSIVE_ATTEMPTS_DAILY (+40) exactly
\* when k >= 21.
C12_CountsExcludeCurrent ==
    (result.op = "score" /\ ~result.out.raised)
    => LET hourly == KthWithin(Hour) >= MaxAttemptsPerHour + 1
           daily == KthWithin(Day) >= MaxAttemptsPerDay + 1
       IN  /\ Has(result.out.flags, "EXCESSIVE_ATTEMPTS_HOURLY") <=> hourly
           /\ Has(result.out.flags, "EXCESSIVE_ATTEMPTS_DAILY") <=> daily
           /\ result.out.details.frequency_score
                = (IF hourly THEN 30 ELSE 0) + (IF daily THEN 40 ELSE 0)

\* C12 witness: a user's 21st call within 24 hours, the first within its
\* hour, was flagged for the day and not for the hour.
C12_Witness ==
    /\ result.op = "score" /\ ~result.out.raised
    /\ KthWithin(Day) = MaxAttemptsPerDay + 1
    /\ KthWithin(Hour) = 1
    /\ Has(result.out.flags, "EXCESSIVE_ATTEMPTS_DAILY")
    /\ ~Has(result.out.flags, "EXCESSIVE_ATTEMPTS_HOURLY")

\* C14: after every scoring call for a user, the stored attempt history of
\* that user holds only timestamps less than 24 hours older than the call,
\* holds the timestamp of the call itself, and holds every call of the user
\* made less than 24 hours before it, each as often as it was made.
C14_HistoryIsDayWindow ==
    result.op = "score"
    => LET user_id == result.user_id
           history == Get(fraud_detector.attempt_history, user_id, <<>>)
       IN  /\ \A i \in DOMAIN history : result.at - history[i] < Day
           /\ Has(history, result.at)
           /\ history = Within(calls[user_id], result.at, Day)

\* C14 witness: a scoring call has dropped attempts older than 24 hours and
\* kept more than one attempt inside the window.
C14_Witness ==
    /\ result.op = "score"
    /\ Len(fraud_detector.attempt_history[result.user_id]) >= 2
    /\ Len(fraud_detector.attempt_history[result.user_id])
         < Len(calls[result.user_id])

C17_BlacklistPermanent ==
    [][fraud_detector.blacklist \subseteq fraud_detector'.blacklist]_vars

\* C17 witness: a user id and a device fingerprint were added in two
\* operations, the user was scored, and a later history read still reports
\* the user blacklisted.
C17_Witness ==
    /\ result.op = "history" /\ result.out.is_blacklisted
    /\ result.out.total_attempts > 0
    /\ fraud_detector.blacklist = {FreqUser, HashDevice(CleanDevice)}
    /\ \E i \in DOMAIN calls[FreqUser] : calls[FreqUser][i] >= ScoreStart

\* C19: scoring returns a result for device_info and verification_data maps
\* with any fields absent, and an absent field adds no flag and nothing to
\* the score: no FACE_MATCH_FAILED without a match field, no LIVENESS_FAILED
\* without an is_live field, quality score 0 for empty verification data,
\* device score 0 for an empty device_info.
C19_AbsentContributesZero ==
    result.op = "score"
    => LET face_match == Get(result.verification_data, "face_match", EmptyDict)
           liveness == Get(result.verification_data, "liveness", EmptyDict)
       IN  /\ ~result.out.raised
           /\ "match" \notin DOMAIN face_match
                => ~Has(result.out.flags, "FACE_MATCH_FAILED")
           /\ "is_live" \notin DOMAIN liveness
                => ~Has(result.out.flags, "LIVENESS_FAILED")
           /\ DOMAIN result.verification_data = {}
                => result.out.details.quality_score = 0
           /\ DOMAIN result.device_info = {}
                => result.out.details.device_score = 0

\* C18: once a user or a device was added to the blacklist through
\* POST /fraud/blacklist/add, every later POST /kyc/verify for that user or
\* device is answered with the verdict FAIL.
C18_BlacklistedVerifyFails ==
    [][(/\ kyc_fraud_detector' # kyc_fraud_detector
        /\ \/ result'.user_id \in fraud_detector.blacklist
           \/ HashDevice([device_id |-> result'.device_id,
                          ip_address |-> result'.ip_address])
                \in fraud_detector.blacklist)
        => (result'.status = 200 /\ result'.out.verdict = "FAIL")]_vars

\* C20: whatever analyze_correlation is given, the correlation score it
\* returns lies between 0 and 1, and prokyc_signature_detected is true
\* exactly when that returned score is at least 0.50.
C20_ScoreBoundedAndProkycIffHalf ==
    result.op = "correlate" =>
        /\ 0 <= result.out.correlation_score
        /\ result.out.correlation_score <= CorrelationOne
        /\ result.out.prokyc_signature_detected
               <=> result.out.correlation_score >= CorrelationOne \div 2

\* C21: whenever the correlation result says a ProKYC signature was
\* detected, calculate_overall_verdict returns FAIL with the reason
\* 'ProKYC signature detected', whatever the three classifier results are.
C21_ProkycAlwaysFails ==
    (/\ result.op \in {"verdict", "decide"}
     /\ Truthy(result.correlation, "prokyc_signature_detected"))
    => (/\ result.out.verdict = "FAIL"
        /\ ~result.out.pass
        /\ result.out.reason = "ProKYC signature detected")

\* C21 happened: ProKYC detected although the video is real, the document
\* genuine and the face matching, each with confidence 0.96.
C21_Witness ==
    /\ result.op = "verdict"
    /\ Truthy(result.correlation, "prokyc_signature_detected")
    /\ Truthy(result.deepfake, "is_real") /\ result.deepfake.confidence = 96
    /\ Truthy(result.document, "is_genuine") /\ result.document.confidence = 96
    /\ Truthy(result.face_match, "match") /\ result.face_match.similarity = 96
    /\ result.out.verdict = "FAIL"

\* the number of the earliest step of the eight-step cascade that matches
\* the inputs of the last call
C22_Step ==
    LET video_fake == ~Truthy(result.deepfake, "is_real")
        video_confidence == Get(result.deepfake, "confidence", 0)
        doc_fake == ~Truthy(result.document, "is_genuine")
        doc_confidence == Get(result.document, "confidence", 0)
        face_negative == ~Truthy(result.face_match, "match")
        face_similarity == Get(result.face_match, "similarity", 0)
    IN  IF Truthy(result.correlation, "prokyc_signature_detected") THEN 1
        ELSE IF video_fake /\ video_confidence > 90 THEN 2
        ELSE IF doc_fake /\ doc_confidence > 90 THEN 3
        ELSE IF face_negative THEN 4
        ELSE IF \/ Get(result.correlation, "risk_level", "LOW") = "HIGH"
                \/ Get(result.correlation, "correlation_score", 0) > CorrelationOne \div 2
        THEN 5
        ELSE IF \E c \in {video_confidence, doc_confidence, face_similarity} : c < 70 THEN 6
        ELSE IF ~video_fake /\ ~doc_fake /\ ~face_negative THEN 7
        ELSE 8

\* the verdicts of the eight steps
C22_Verdicts ==
    <<"FAIL", "FAIL", "FAIL", "FAIL", "SUSPICIOUS", "SUSPICIOUS", "PASS", "SUSPICIOUS">>

\* C22: for every input the verdict of calculate_overall_verdict is that of
\* the earliest matching step of the eight-step cascade, and a PASS comes
\* with the mean of the three confidences as its confidence.
C22_EarliestStepWins ==
    result.op \in {"verdict", "decide"} =>
        /\ result.out.verdict = C22_Verdicts[C22_Step]
        /\ result.out.pass <=> C22_Step = 7
        /\ C22_Step = 7 =>
               3 * result.out.confidence
                   = (result.deepfake.confidence + result.document.confidence
                      + result.face_match.similarity) * ConfidenceUnit

\* C22 happened: all three results are positive with confidence at least
\* 0.70, which is step 7, but the correlation risk level is HIGH, which is
\* the earlier step 5, and the verdict is SUSPICIOUS.
C22_Witness ==
    /\ result.op = "verdict"
    /\ ~Truthy(result.correlation, "prokyc_signature_detected")
    /\ Get(result.correlation, "risk_level", "LOW") = "HIGH"
    /\ Truthy(result.deepfake, "is_real") /\ result.deepfake.confidence = 70
    /\ Truthy(result.document, "is_genuine") /\ result.document.confidence = 70
    /\ Truthy(result.face_match, "match") /\ result.face_match.similarity = 70
    /\ result.out.verdict = "SUSPICIOUS"
    /\ result.out.reason = "High correlation (risk: HIGH)"

\* the inputs of scenario E: video fake with confidence 0.95, face match
\* positive with similarity 0.92, document fake with confidence 0.92
C27_ScenarioE ==
    /\ result.op = "decide"
    /\ IsFalse(result.deepfake, "is_real") /\ result.deepfake.confidence = 95
    /\ Truthy(result.face_match, "match") /\ result.face_match.similarity = 92
    /\ IsFalse(result.document, "is_genuine") /\ result.document.confidence = 92

\* C27: in scenario E correlation pattern 2 triggers and adds 0.5, a ProKYC
\* signature is detected whatever the pixel correlation is, and the final
\* verdict is FAIL with the ProKYC reason.
C27_ScenarioEFails ==
    C27_ScenarioE =>
        /\ result.correlation.analysis_details.impossible_combination
        /\ result.correlation.correlation_score
               = Round4(Min(CorrelationOne \div 2 + 3 * result.gan_correlation,
                            CorrelationOne))
        /\ result.correlation.prokyc_signature_detected
        /\ result.out.verdict = "FAIL"
        /\ result.out.reason = "ProKYC signature detected"

\* C27 happened: scenario E was decided with no pixel correlation at all,
\* and with full pixel correlation.
C27_Witness ==
    /\ C27_ScenarioE
    /\ result.gan_correlation = 0
    /\ result.correlation.correlation_score = CorrelationOne \div 2
    /\ result.out.verdict = "FAIL"

\* a classifier result that is missing or reports an error
C23_Failed(r) == DOMAIN r = {} \/ "error" \in DOMAIN r \/ Get(r, "verdict", "") = "ERROR"

\* C23: in both orchestration modes, when the video, document, face match
\* or liveness classifier returned an error result or no result, the final
\* verdict is not PASS.
C23_ErrorNeverPasses ==
    /\ (/\ result.op \in {"verdict", "decide"}
        /\ \/ C23_Failed(result.deepfake)
           \/ C23_Failed(result.document)
           \/ C23_Failed(result.face_match))
       => (result.out.verdict # "PASS" /\ ~result.out.pass)
    /\ (/\ result.op = "verify"
        /\ \/ C23_Failed(result.document)
           \/ C23_Failed(result.face)
           \/ C23_Failed(result.liveness))
       => ~(result.status = 200 /\ result.out.verdict = "PASS")

\* C23 happened: the weighted verification returned a verdict although the
\* document could not be read and the liveness image was missing.
C23_Witness ==
    /\ result.op = "verify"
    /\ C23_Failed(result.document)
    /\ C23_Failed(result.liveness)
    /\ result.status = 200
    /\ result.out.verdict = "FAIL"

\* a critical flag is among the flags of the last decision
C24_Critical ==
    result.flags \cap {"FACE_MATCH_FAILED", "LIVENESS_FAILED", "USER_BLACKLISTED",
                       "DEVICE_BLACKLISTED"} # {}

\* C24: the weighted verdict is FAIL if overall < 40 or a critical flag is
\* present, PASS if overall >= 75 and the fraud risk level is neither HIGH
\* nor CRITICAL, and REVIEW in every other case.
C24_VerdictRule ==
    result.op = "decision" =>
        result.out.verdict =
            IF result.overall_score < FailThreshold * 100 \/ C24_Critical THEN "FAIL"
            ELSE IF /\ result.overall_score >= PassThreshold * 100
                    /\ result.risk_level \notin {"HIGH", "CRITICAL"}
            THEN "PASS"
            ELSE "REVIEW"

\* C24 as the code has it: the weighted verdict is FAIL if a critical flag
\* is present or the fraud risk level is CRITICAL; otherwise, with
\* overall >= 75, REVIEW if the risk level is HIGH or MEDIUM and PASS if
\* not; otherwise FAIL if overall < 40 and REVIEW if 40 <= overall < 75.
C24_VerdictRuleWithRiskLevels ==
    result.op = "decision" =>
        result.out.verdict =
            IF C24_Critical \/ result.risk_level = "CRITICAL" THEN "FAIL"
            ELSE IF result.overall_score >= PassThreshold * 100
            THEN IF result.risk_level \in {"HIGH", "MEDIUM"} THEN "REVIEW" ELSE "PASS"
            ELSE IF result.overall_score < FailThreshold * 100 THEN "FAIL"
            ELSE "REVIEW"

\* C24 happened: a decision on an overall score of 75 without a critical
\* flag was FAIL because the fraud risk level is CRITICAL.
C24_Witness ==
    /\ result.op = "decision"
    /\ result.overall_score = PassThreshold * 100
    /\ ~C24_Critical
    /\ result.risk_level = "CRITICAL"
    /\ result.out.verdict = "FAIL"

\* C25: for every result the document verifier, the face matcher, the
\* liveness detector and the fraud engine can return, the weighted overall
\* score lies between 0 and 100.
C25_OverallWithinHundred ==
    result.op = "overall" => (0 <= result.out /\ result.out <= 100 * 100)

\* C26: for every combination of results the classifiers can return, a
\* matching face with its confidence label included, verify_kyc returns a
\* verdict among PASS, REVIEW and FAIL and does not raise.
C26_VerifyAlwaysReturnsVerdict ==
    result.op = "verify" =>
        /\ ~result.out.raised
        /\ result.status = 200
        /\ result.out.verdict \in {"PASS", "REVIEW", "FAIL"}

\* C28: each calculate_risk_score call appends exactly one timestamp, that
\* of the call, to the history of the scored user, whose older entries are
\* those of the last day; it leaves the history of every other user and the
\* blacklist as they were; and get_user_history changes nothing and creates
\* no history entry.
C28_OneAttemptPerScore ==
    [][/\ calls' # calls =>
            LET u == result'.user_id
                old == Get(fraud_detector.attempt_history, u, <<>>)
            IN  /\ DOMAIN fraud_detector'.attempt_history
                       = DOMAIN fraud_detector.attempt_history \cup {u}
                /\ fraud_detector'.attempt_history[u] = Append(Within(old, now, Day), now)
                /\ \A v \in DOMAIN fraud_detector.attempt_history \ {u} :
                       fraud_detector'.attempt_history[v] = fraud_detector.attempt_history[v]
                /\ fraud_detector'.blacklist = fraud_detector.blacklist
       /\ (result' # result /\ result'.op = "history") =>
            /\ fraud_detector' = fraud_detector
            /\ result'.out.total_attempts
                   = Len(Get(fraud_detector.attempt_history, result'.user_id, <<>>))]_vars

\* C28 happened: user-1 was scored a second time, a day after the first, so
\* that the history holds the new attempt alone, while user-2 has a history
\* and the blacklist a member.
C28_Witness ==
    /\ result.op = "score"
    /\ result.user_id = "user-1"
    /\ Len(calls["user-1"]) = 2
    /\ fraud_detector.attempt_history["user-1"] = <<result.at>>
    /\ "user-2" \in DOMAIN fraud_detector.attempt_history
    /\ fraud_detector.blacklist # {}

\* the confidence of a face_match or liveness map of the last scoring call is
\* a number below the threshold
C29_Below(key, threshold) ==
    LET d == Get(result.verification_data, key, EmptyDict)
    IN  "confidence" \in DOMAIN d /\ d.confidence.float < threshold

\* the score delta of a flag of the last scoring call: delta if raised
C29_Delta(flag, delta) == IF Has(result.out.flags, flag) THEN delta ELSE 0

C30_Pattern3 ==
    "Unnaturally high confidence across all fake artifacts"
        \in result.out.suspicious_patterns

\* the three confidences of the last call are all above 0.95
C30_AllConfident ==
    /\ Get(result.deepfake, "confidence", 0) > 95
    /\ Get(result.document, "confidence", 0) > 95
    /\ Get(result.face_match, "similarity", 0) > 95

\* the correlation score before the pixel term, from the patterns reported
C30_PatternSum ==
    (IF result.out.analysis_details.all_fake_pattern THEN 400000 ELSE 0)
    + (IF result.out.analysis_details.impossible_combination THEN 500000 ELSE 0)
    + (IF C30_Pattern3 THEN 300000 ELSE 0)

====
